---- MODULE Spec2Model ----
(***************************************************************************)
(* Model of scgi_run.c: one process reads one SCGI netstring header from   *)
(* stdin, copies its name/value pairs into the process environment,        *)
(* resolves and validates the CGI script path and replaces itself with     *)
(* the script (execve), or reports an error on stdout and exits.           *)
(*                                                                         *)
(* Bytes are one-character strings; the NUL byte is the token "NUL".       *)
(* C strings are sequences of bytes without their terminating NUL.         *)
(* Offsets into buffers are 0-based as in the C code (mem[i+1] in TLA+).   *)
(***************************************************************************)
EXTENDS Integers, Sequences, FiniteSets, TLC

(***************************************************************************)
(* Bounds of the explored inputs.                                          *)
(***************************************************************************)
\* every length prefix of at most SmallDigits digits is explored
SmallDigits == 2
\* header payloads hold at most MaxStrings strings
MaxStrings == 4
\* number of non-NUL bytes that may follow the header buffer in memory
MaxTail == 1

(***************************************************************************)
(* Program constants.                                                      *)
(***************************************************************************)
MAX_HEADER_LENGTH == 262144
INT_MAX == 2147483647

NUL == "NUL"
NULL == <<"NULLPTR">>

SCGI == <<"S", "C", "G", "I">>
GATEWAY_INTERFACE == <<"G", "A", "T", "E", "W", "A", "Y", "_", "I", "N", "T", "E", "R", "F", "A", "C", "E">>
SCRIPT_FILENAME == <<"S", "C", "R", "I", "P", "T", "_", "F", "I", "L", "E", "N", "A", "M", "E">>
CGI_1_1 == <<"C", "G", "I", "/", "1", ".", "1">>
DotDotSlash == <<".", ".", "/">>

ENOENT == "ENOENT"
EACCES == "EACCES"
\* the ways execve is taken to fail
ExecErrors == {ENOENT, EACCES}

\* the status lines and message formats passed to return_error
ST_500 == "500 Internal Error"
ST_500_INVALID == "500 Invalid SCGI header"
ST_404 == "404 Not Found"
MSG_STREAM_TRUNCATED == "SCGI stream truncated"
MSG_NOT_DIGIT == "SCGI stream didn't start with a digit, started with char 0x%x"
MSG_RANGE == "SCGI Header length is not in the range 0..%d"
MSG_INVALID_CHAR == "Invalid character 0x%x in length"
MSG_NO_MEMORY == "Can't allocate memory to read SCGI header"
MSG_HEADER_TRUNCATED == "SCGI Header truncated"
MSG_MISSING_COMMA == "SCGI Header: Incomplete netstring, missing comma"
MSG_CORRUPT_TABLE == "SCGI Header: Corrupt name/value table"
MSG_NO_SCRIPT == "CGI environment missing SCRIPT_FILENAME"
MSG_DOTDOT == "SCRIPT_FILENAME should not include \"../\""
MSG_NOT_UNDER == "[%s] doesn't reside under [%s]"
MSG_NOT_FOUND == "Can't locate CGI script\n"
MSG_EXEC_FAILED == "Unable to execute CGI script, please contact the system administrator\n%s\n"
\* the format of the response return_error writes
RESPONSE_FORMAT == "Status: %s\r\nContent-Type: text/plain\r\n\r\n%s\r\n"

(***************************************************************************)
(* Input families.                                                         *)
(***************************************************************************)
DigitChars == {"0", "1", "2", "3", "4", "5", "6", "7", "8", "9"}
\* bytes of the length prefix that are not digits
OtherChars == {":", "x"}

\* long length prefixes explored besides all those of SmallDigits digits
BoundaryPrefixes ==
    { <<"2", "6", "2", "1", "4", "4", "0">>,
      <<"2", "6", "2", "1", "4", "4", "9">>,
      <<"2", "6", "2", "1", "4", "5">>,
      <<"0", "2", "6", "2", "1", "4", "4">>,
      <<"9", "9", "9", "9", "9", "9">>,
      <<"0", "0", "0", "0", "0", "0", "0", "0">> }

IsPrefixSeq(p, s) == Len(p) <= Len(s) /\ SubSeq(s, 1, Len(p)) = p

\* the length prefixes the peer may send
InFamily(ds) ==
    \/ Len(ds) <= SmallDigits
    \/ \E m \in BoundaryPrefixes : IsPrefixSeq(ds, m)

P_APP == <<"/", "v", "a", "r", "/", "w", "w", "w", "/", "c", "g", "i", "/", "a", "p", "p", ".", "c", "g", "i">>
P_OTHER == <<"/", "v", "a", "r", "/", "w", "w", "w", "/", "o", "t", "h", "e", "r", "/", "a", "p", "p", ".", "c", "g", "i">>
P_DOTDOT == <<"/", "v", "a", "r", "/", "w", "w", "w", "/", "c", "g", "i", "/", ".", ".", "/", "s", "h">>
P_SHORT == <<"/", "v", "a", "r", "/", "w", "w", "w", "/", "c", "g", "i">>
P_PREFIX == <<"/", "v", "a", "r", "/", "w", "w", "w", "/", "c", "g", "i", "/">>
P_DATE == <<"/", "b", "i", "n", "/", "d", "a", "t", "e">>
P_BIN_DOTDOT == <<"/", "b", "i", "n", "/", ".", ".", "/", "s", "h">>
A_PROG == <<"s", "c", "g", "i", "_", "r", "u", "n">>
A_FLAG == <<"-", "u">>
V_OLD == <<"C", "G", "I", "/", "1", ".", "0">>

\* strings a header may carry in name position and in value position
NameStrs == { SCRIPT_FILENAME, SCGI, GATEWAY_INTERFACE, <<>> }
ValueStrs == { P_APP, P_OTHER, P_DOTDOT, P_SHORT }

RECURSIVE Payloads(_)
\* payloads made of exactly k NUL-terminated strings
Payloads(k) ==
    IF k = 0 THEN { <<>> }
    ELSE { p \o s \o <<NUL>> :
             p \in Payloads(k - 1),
             s \in (IF k % 2 = 1 THEN NameStrs ELSE ValueStrs) }

\* the same, with the NUL of the last string cut off
Unterminated(k) ==
    { SubSeq(p, 1, Len(p) - 1) : p \in { q \in Payloads(k) : Len(q) > 1 } }

AllPayloads ==
    UNION { Payloads(k) \cup Unterminated(k) : k \in 0 .. MaxStrings }

\* what one read of the header block may deliver: payload and closing byte
\* (a closing byte other than the comma is tried after the shorter payloads)
AllBlocks ==
    { p \o <<",">> : p \in AllPayloads }
    \cup { p \o <<"x">> : p \in UNION { Payloads(k) \cup Unterminated(k) : k \in 0 .. 2 } }

MaxBlockLen == 1 + MaxStrings * 23

\* the blocks by their number of bytes
BlocksOfLen == [l \in 1 .. MaxBlockLen |-> { b \in AllBlocks : Len(b) = l }]

\* the blocks of exactly n bytes that the peer may send
BlocksFor(n) == IF n \in DOMAIN BlocksOfLen THEN BlocksOfLen[n] ELSE {}

\* bytes found in memory after the header buffer, up to the next NUL
Tails == { t \in { <<>>, <<"g">>, <<"g", "g">>, <<"g", "g", "g">> } : Len(t) <= MaxTail }

EmptyEnv == [n \in {} |-> <<>>]

\* an environment left over from a CGI/1.0 front end
OldEnv ==
    [n \in {SCRIPT_FILENAME, SCGI, GATEWAY_INTERFACE} |->
        IF n = SCRIPT_FILENAME THEN P_APP
        ELSE IF n = SCGI THEN <<"1">> ELSE V_OLD]

\* how the process may be started: the command line (argv[0] first) and the
\* environment
Configs ==
    { << <<A_PROG>>, EmptyEnv >>,
      << <<A_PROG>>, OldEnv >>,
      << <<A_PROG, P_PREFIX>>, EmptyEnv >>,
      << <<A_PROG, P_PREFIX, A_FLAG>>, OldEnv >>,
      << <<A_PROG, P_DATE, A_FLAG>>, OldEnv >>,
      << <<A_PROG, P_BIN_DOTDOT>>, EmptyEnv >>,
      << <<A_PROG, <<>> >>, EmptyEnv >> }

(***************************************************************************)
(* C library functions, by what they do.                                   *)
(***************************************************************************)
isdigit(ch) == ch \in DigitChars

\* ch - '0'
DigitValue(ch) ==
    CASE ch = "0" -> 0 [] ch = "1" -> 1 [] ch = "2" -> 2 [] ch = "3" -> 3
      [] ch = "4" -> 4 [] ch = "5" -> 5 [] ch = "6" -> 6 [] ch = "7" -> 7
      [] ch = "8" -> 8 [] ch = "9" -> 9

\* arithmetic in a 32-bit int
ToInt32(x) == IF x > INT_MAX THEN ((x - INT_MAX) - INT_MAX) - 2 ELSE x

RECURSIVE strlen_at(_, _)
\* strlen(mem + i): number of bytes from offset i to the next NUL
strlen_at(mem, i) ==
    IF mem[i + 1] = NUL THEN 0 ELSE 1 + strlen_at(mem, i + 1)

\* the C string starting at offset i of mem
cstr_at(mem, i) == SubSeq(mem, i + 1, i + strlen_at(mem, i))

\* a faulty strstr: the needle is looked for at the start of the string only
strstr_at_start(haystack, needle) == IsPrefixSeq(needle, haystack)

\* strstr(haystack, needle) != NULL
strstr(haystack, needle) ==
    \E i \in 1 .. Len(haystack) :
        /\ i + Len(needle) - 1 <= Len(haystack)
        /\ SubSeq(haystack, i, i + Len(needle) - 1) = needle

RECURSIVE strncmp_from(_, _, _, _)
strncmp_from(a, b, i, n) ==
    IF i > n THEN 0
    ELSE IF a[i] # b[i] THEN 1
    ELSE IF a[i] = NUL THEN 0
    ELSE strncmp_from(a, b, i + 1, n)

\* a faulty strncmp: compares no more bytes than s2 has
strncmp_upto_shorter(s1, s2, n) ==
    strncmp_from(s1 \o <<NUL>>, s2 \o <<NUL>>, 1, IF Len(s2) < n THEN Len(s2) ELSE n)

\* strncmp(s1, s2, n): 0 when equal over the first n bytes, else non-zero
strncmp(s1, s2, n) == strncmp_from(s1 \o <<NUL>>, s2 \o <<NUL>>, 1, n)

\* a faulty getenv: an unset variable reads as the empty string
getenv_empty_when_unset(env, n) == IF n \in DOMAIN env THEN env[n] ELSE <<>>

getenv(env, n) == IF n \in DOMAIN env THEN env[n] ELSE NULL

\* a faulty setenv: called with overwrite = 0, an existing entry is kept
setenv_keep_existing(env, n, v) ==
    IF n = <<>> \/ (\E i \in 1 .. Len(n) : n[i] = "=") \/ n \in DOMAIN env
    THEN env
    ELSE [x \in DOMAIN env \cup {n} |-> IF x = n THEN v ELSE env[x]]

\* setenv(n, v, 1): fails with EINVAL, leaving the environment alone, when
\* the name is empty or contains '='
setenv_fails(n) == n = <<>> \/ \E i \in 1 .. Len(n) : n[i] = "="

setenv(env, n, v) ==
    IF setenv_fails(n) THEN env
    ELSE [x \in DOMAIN env \cup {n} |-> IF x = n THEN v ELSE env[x]]

unsetenv(env, n) == [x \in DOMAIN env \ {n} |-> env[x]]


(***************************************************************************)
(* Conditions of the code.                                                 *)
(***************************************************************************)
\* a faulty read_failed: only an empty or failed read counts as a failure
read_nothing(n, want) == n <= 0

\* read() filled fewer bytes than asked for (or failed)
read_failed(n, want) == n # want

\* what read(0, buf, want) may return: the bytes delivered (-1 on error) and
\* whether the stream was found at its end
ReadResults(want) ==
    { [n |-> want, eof |-> FALSE], [n |-> 0, eof |-> TRUE], [n |-> -1, eof |-> FALSE] }
    \cup { [n |-> k, eof |-> e] : k \in ({1, want - 1} \cap (1 .. want - 1)), e \in BOOLEAN }

\* read_char keeps the byte in an int of which read() sets one byte only: the
\* other three bytes are whatever the stack held
StackGarbage == {0, 1}
int_of_read(b, g) == [low |-> b, high |-> g]
\* the assignment of that int to `char ch' keeps the low byte
to_char(r) == r.low

\* a faulty length_out_of_range: the maximum itself is refused
length_at_maximum(len) == len < 0 \/ len >= MAX_HEADER_LENGTH

\* a faulty length_out_of_range: the upper bound is not checked
length_negative_only(len) == len < 0

length_out_of_range(len) == len < 0 \/ len > MAX_HEADER_LENGTH

\* a faulty missing_comma: the closing byte is not looked at
missing_comma_unchecked(buf, len) == FALSE

missing_comma(buf, len) == buf[len + 1] # ","

corrupt_table(value, len) == value >= len

\* strerror for the errno values above
strerror(e) == IF e = ENOENT THEN "No such file or directory" ELSE "Permission denied"

\* a faulty not_found: a missing script is not told apart
not_found_never(e) == FALSE

\* errno == ENOENT after execve returned
not_found(e) == e = ENOENT

argc(av) == Len(av)
\* argv[i], i counted from 0
arg(av, i) == av[i + 1]

RECURSIVE arg_area(_)
\* the argument strings as execve lays them out: one after the other, each
\* followed by its NUL
arg_area(av) ==
    IF av = <<>> THEN <<>> ELSE Head(av) \o <<NUL>> \o arg_area(Tail(av))

\* offset of argv[1] in that area
arg1_offset(av) == Len(arg(av, 0)) + 1

\* a faulty ends_with_slash: the first byte of argv[1] is tested
starts_with_slash(av) == arg(av, 1) # <<>> /\ arg(av, 1)[1] = "/"

\* argv[1][strlen(argv[1]) - 1] == '/'; for an empty argv[1] the index wraps
\* to -1 and the byte is the NUL that ends argv[0]
ends_with_slash(av) ==
    arg_area(av)[arg1_offset(av) + Len(arg(av, 1)) - 1 + 1] = "/"

VARIABLES
    argv,             \* the command line, argv[0] first
    ambient,          \* the environment the process was started with
    environ,          \* the process environment
    pc,               \* the stage about to run, or the way the process ended
    length,           \* read_scgi_environment: length
    digits,           \* the digits of the length prefix read so far
    consumed,         \* number of bytes taken from stdin
    streamEnded,      \* a read found stdin at its end
    reads,            \* number of read() calls made
    headers,          \* the header buffer (length+1 bytes) once read
    name,             \* read_scgi_environment: name, as an offset into headers
    applied,          \* the setenv calls of the walk, in order
    overread,         \* the walk scanned bytes behind the header buffer
    script_filename,  \* main: script_filename
    check_directory,  \* main: check_directory
    exec_args,        \* main: exec_args
    execve_call,      \* the execve call made, if any
    errno,            \* errno after execve
    out,              \* the responses written to stdout
    exit_status,      \* the exit status, -1 while running
    walk1             \* the outcome of a first walk, when the walk is run again

vars == << argv, ambient, environ, pc, length, digits, consumed, streamEnded,
           reads, headers, name, applied, overread, script_filename,
           check_directory, exec_args, execve_call, errno, out, exit_status,
           walk1 >>

inputVars == << argv, ambient >>
readerVars == << length, digits, headers, name, applied, overread >>
streamVars == << consumed, streamEnded, reads >>
mainVars == << script_filename, check_directory, exec_args, execve_call, errno >>

Init ==
    /\ \E c \in Configs : argv = c[1] /\ ambient = c[2]
    /\ environ = ambient
    /\ pc = "Start"
    /\ length = 0
    /\ digits = <<>>
    /\ consumed = 0
    /\ streamEnded = FALSE
    /\ reads = 0
    /\ headers = <<>>
    /\ name = 0
    /\ applied = <<>>
    /\ overread = FALSE
    /\ script_filename = NULL
    /\ check_directory = NULL
    /\ exec_args = <<>>
    /\ execve_call = <<>>
    /\ errno = "0"
    /\ out = <<>>
    /\ exit_status = -1
    /\ walk1 = <<>>

\* a faulty return_error: the process exits with status 0
return_error_exit_zero(status_msg, msg, args) ==
    /\ out' = Append(out, [format |-> RESPONSE_FORMAT,
                           status |-> status_msg,
                           content_type |-> "text/plain",
                           message |-> msg,
                           args |-> args])
    /\ exit_status' = 0
    /\ pc' = "Exited"

\* return_error: one response on stdout, then exit(1).  The response is the
\* fprintf format with its two arguments; the message is msg with its
\* variable arguments args.
return_error(status_msg, msg, args) ==
    /\ out' = Append(out, [format |-> RESPONSE_FORMAT,
                           status |-> status_msg,
                           content_type |-> "text/plain",
                           message |-> msg,
                           args |-> args])
    /\ exit_status' = 1
    /\ pc' = "Exited"

\* read_char failing: read() did not return 1
read_char_fails(r) ==
    /\ read_failed(r.n, 1)
    /\ streamEnded' = r.eof
    /\ reads' = reads + 1
    /\ UNCHANGED consumed
    /\ return_error(ST_500, MSG_STREAM_TRUNCATED, <<>>)

\* first byte of the length prefix
ReadFirstChar ==
    /\ pc = "Start"
    /\ \/ \E r \in ReadResults(1) :
            /\ read_char_fails(r)
            /\ UNCHANGED << inputVars, walk1, environ, readerVars, mainVars >>
       \/ \E b \in DigitChars \cup OtherChars, g \in StackGarbage :
            LET ch == to_char(int_of_read(b, g)) IN
            /\ InFamily(<<b>>)
            /\ consumed' = consumed + 1
            /\ reads' = reads + 1
            /\ UNCHANGED streamEnded
            /\ IF isdigit(ch)
               THEN /\ length' = DigitValue(ch)
                    /\ digits' = <<ch>>
                    /\ pc' = "ReadLength"
                    /\ UNCHANGED << out, exit_status >>
               ELSE /\ return_error(ST_500, MSG_NOT_DIGIT, <<ch>>)
                    /\ UNCHANGED << length, digits >>
            /\ UNCHANGED << inputVars, walk1, environ, headers, name, applied,
                            overread, mainVars >>

\* one turn of the loop that reads the rest of the length prefix
ReadLengthChar ==
    /\ pc = "ReadLength"
    /\ \/ \E r \in ReadResults(1) :
            /\ read_char_fails(r)
            /\ UNCHANGED << inputVars, walk1, environ, readerVars, mainVars >>
       \/ \E b \in DigitChars \cup OtherChars, g \in StackGarbage :
            LET ch == to_char(int_of_read(b, g))
                len == IF isdigit(ch)
                       THEN ToInt32((length * 10) + DigitValue(ch))
                       ELSE length
            IN
            /\ isdigit(b) => InFamily(Append(digits, b))
            /\ consumed' = consumed + 1
            /\ reads' = reads + 1
            /\ UNCHANGED streamEnded
            /\ IF isdigit(ch)
               THEN /\ length' = len
                    /\ digits' = Append(digits, ch)
                    /\ IF length_out_of_range(len)
                       THEN return_error(ST_500, MSG_RANGE, <<MAX_HEADER_LENGTH>>)
                       ELSE UNCHANGED << pc, out, exit_status >>
               ELSE /\ UNCHANGED << length, digits >>
                    /\ IF ch = ":"
                       THEN /\ pc' = "ReadBlock"
                            /\ UNCHANGED << out, exit_status >>
                       ELSE return_error(ST_500_INVALID, MSG_INVALID_CHAR, <<ch>>)
            /\ UNCHANGED << inputVars, walk1, environ, headers, name, applied,
                            overread, mainVars >>

\* malloc of the buffer, the one read of length+1 bytes, the comma check.
\* A read that delivered fewer bytes leaves the rest of the buffer as malloc
\* returned it.
ReadBlock ==
    /\ pc = "ReadBlock"
    /\ \/ \* malloc returned NULL
          /\ return_error(ST_500, MSG_NO_MEMORY, <<>>)
          /\ UNCHANGED << headers, name, streamVars >>
       \/ \E r \in ReadResults(length + 1) :
            /\ consumed' = consumed + (IF r.n > 0 THEN r.n ELSE 0)
            /\ reads' = reads + 1
            /\ streamEnded' = r.eof
            /\ IF read_failed(r.n, length + 1)
               THEN /\ return_error(ST_500, MSG_HEADER_TRUNCATED, <<>>)
                    /\ UNCHANGED << headers, name >>
               ELSE \E blk \in BlocksFor(length + 1) :
                      /\ headers' = blk
                      /\ IF missing_comma(blk, length)
                         THEN /\ return_error(ST_500, MSG_MISSING_COMMA, <<>>)
                              /\ UNCHANGED name
                         ELSE /\ name' = 0
                              /\ pc' = IF length # 0 /\ 0 < length
                                       THEN "ParseEnv" ELSE "BuildEnv"
                              /\ UNCHANGED << out, exit_status >>
    /\ UNCHANGED << inputVars, walk1, environ, length, digits, applied, overread,
                    mainVars >>

\* one turn of the name/value walk
ParsePair ==
    /\ pc = "ParseEnv"
    /\ name < length
    /\ \E tail \in Tails :
         LET mem == headers \o tail \o <<NUL>>
             nlen == strlen_at(mem, name)
             value == name + nlen + 1
             vlen == strlen_at(mem, value)
             next == value + vlen + 1
         IN
         IF corrupt_table(value, length)
         THEN /\ return_error(ST_500, MSG_CORRUPT_TABLE, <<>>)
              /\ overread' = (name + nlen > length)
              /\ UNCHANGED << environ, name, applied >>
         ELSE /\ environ' = setenv(environ, cstr_at(mem, name), cstr_at(mem, value))
              /\ applied' = Append(applied, << cstr_at(mem, name), cstr_at(mem, value) >>)
              /\ overread' = (value + vlen > length)
              /\ name' = next
              /\ pc' = IF next < length THEN "ParseEnv" ELSE "BuildEnv"
              /\ UNCHANGED << out, exit_status >>
    /\ UNCHANGED << inputVars, walk1, length, digits, headers, streamVars, mainVars >>

\* a scan that leaves the buffer may also hit unmapped memory: SIGSEGV
ParseCrash ==
    /\ pc = "ParseEnv"
    /\ name < length
    /\ LET mem == headers \o <<NUL>>
           nlen == strlen_at(mem, name)
           value == name + nlen + 1
       IN \/ name + nlen > length
          \/ /\ ~corrupt_table(value, length)
             /\ value + strlen_at(mem, value) > length
    /\ overread' = TRUE
    /\ pc' = "Crashed"
    /\ UNCHANGED << inputVars, walk1, environ, length, digits, headers, name, applied,
                    streamVars, mainVars, out, exit_status >>

\* main after read_scgi_environment: unsetenv and setenv
BuildEnv ==
    /\ pc = "BuildEnv"
    /\ environ' = setenv(unsetenv(environ, SCGI), GATEWAY_INTERFACE, CGI_1_1)
    /\ pc' = "ResolvePath"
    /\ UNCHANGED << inputVars, walk1, readerVars, streamVars, mainVars, out, exit_status >>

\* main: the script path and the argument vector
ResolvePath ==
    /\ pc = "ResolvePath"
    /\ LET from_env == getenv(environ, SCRIPT_FILENAME)
           is_dir == argc(argv) > 1 /\ ends_with_slash(argv)
           is_script == argc(argv) > 1 /\ ~ends_with_slash(argv)
           path == IF is_script THEN arg(argv, 1) ELSE from_env
       IN
       /\ script_filename' = path
       /\ check_directory' = IF is_dir THEN arg(argv, 1) ELSE NULL
       /\ exec_args' = IF is_script THEN Tail(argv) ELSE << from_env >>
       /\ IF path = NULL
          THEN return_error(ST_500, MSG_NO_SCRIPT, <<>>)
          ELSE /\ pc' = "ValidatePath"
               /\ UNCHANGED << out, exit_status >>
    /\ UNCHANGED << inputVars, walk1, environ, readerVars, streamVars, execve_call, errno >>

\* main: the two checks of the path
ValidatePath ==
    /\ pc = "ValidatePath"
    /\ IF strstr(script_filename, DotDotSlash)
       THEN return_error(ST_500, MSG_DOTDOT, <<>>)
       ELSE IF /\ check_directory # NULL
               /\ strncmp(check_directory, script_filename, Len(check_directory)) # 0
       THEN return_error(ST_500, MSG_NOT_UNDER, <<script_filename, check_directory>>)
       ELSE /\ pc' = "Dispatch"
            /\ UNCHANGED << out, exit_status >>
    /\ UNCHANGED << inputVars, walk1, environ, readerVars, streamVars, mainVars >>

\* main: execve and what follows when it returns
Dispatch ==
    /\ pc = "Dispatch"
    /\ execve_call' = << [path |-> script_filename, args |-> exec_args, envp |-> environ] >>
    /\ \/ \* the script runs; no file has the empty name
          /\ script_filename # <<>>
          /\ pc' = "Replaced"
          /\ UNCHANGED << errno, out, exit_status >>
       \/ \E e \in ExecErrors :
            /\ errno' = e
            /\ IF not_found(e)
               THEN return_error(ST_404, MSG_NOT_FOUND, <<>>)
               ELSE return_error(ST_500, MSG_EXEC_FAILED, <<strerror(e)>>)
    /\ UNCHANGED << inputVars, walk1, environ, readerVars, streamVars, script_filename,
                    check_directory, exec_args >>

Next ==
    \/ ReadFirstChar
    \/ ReadLengthChar
    \/ ReadBlock
    \/ ParsePair
    \/ ParseCrash
    \/ BuildEnv
    \/ ResolvePath
    \/ ValidatePath
    \/ Dispatch

Spec == Init /\ [][Next]_vars

\* The walk of read_scgi_environment entered a second time over the same
\* buffer, once the first walk has ended (with the loop's end or with the
\* corrupt-table error): the outcome of the first walk is kept in walk1, the
\* environment stays as the first walk left it.
Rewalk ==
    /\ walk1 = <<>>
    /\ length > 0
    /\ \/ pc = "BuildEnv"
       \/ /\ pc = "Exited"
          /\ out[1].message = MSG_CORRUPT_TABLE
    /\ walk1' = << [pairs |-> applied, failed |-> (pc = "Exited"),
                    env |-> environ, over |-> overread] >>
    /\ name' = 0
    /\ applied' = <<>>
    /\ overread' = FALSE
    /\ pc' = "ParseEnv"
    /\ out' = <<>>
    /\ exit_status' = -1
    /\ UNCHANGED << inputVars, environ, length, digits, headers, streamVars,
                    mainVars >>

\* reading a header and walking it twice
NextRewalk ==
    \/ ReadFirstChar
    \/ ReadLengthChar
    \/ ReadBlock
    \/ ParsePair
    \/ ParseCrash
    \/ Rewalk

SpecRewalk == Init /\ [][NextRewalk]_vars

TypeOK ==
    /\ pc \in {"Start", "ReadLength", "ReadBlock", "ParseEnv", "BuildEnv",
               "ResolvePath", "ValidatePath", "Dispatch", "Replaced", "Exited",
               "Crashed"}
    /\ length \in 0 .. 2621449
    /\ consumed \in Nat
    /\ Len(out) <= 1

(***************************************************************************)
(* Vocabulary of the properties.                                           *)
(***************************************************************************)
\* s holds sub as a contiguous run of bytes
Contains(s, sub) ==
    \E i \in 0 .. Len(s) - Len(sub) :
        \A j \in 1 .. Len(sub) : s[i + j] = sub[j]

\* s begins with the bytes of p
StartsWith(s, p) ==
    /\ Len(s) >= Len(p)
    /\ \A j \in 1 .. Len(p) : s[j] = p[j]

\* the process ended in return_error with this message
FailedWith(msg) ==
    /\ pc = "Exited"
    /\ Len(out) = 1
    /\ out[1].message = msg
    /\ exit_status # 0

\* execve was called
Dispatched == execve_call # <<>>

\* ResolvePath has run
Resolved == exec_args # <<>>

HasArg == Len(argv) > 1
\* the first argument ends with '/': it is the containment prefix
ArgIsPrefix == HasArg /\ argv[2] # <<>> /\ argv[2][Len(argv[2])] = "/"
\* the first argument does not end with '/': it is the script to run
ArgIsScript == HasArg /\ ~ArgIsPrefix

(***************************************************************************)
(* C1: execve is never called, and the Dispatch stage never reached, with  *)
(* a script path that contains "../"; once such a path has been resolved,  *)
(* from SCRIPT_FILENAME or from the command line, with or without a        *)
(* containment prefix, the run ends in return_error.                       *)
(***************************************************************************)
C1_NoTraversalDispatched ==
    /\ Dispatched => ~Contains(execve_call[1].path, DotDotSlash)
    /\ pc \in {"Dispatch", "Replaced"} => ~Contains(script_filename, DotDotSlash)
    /\ (/\ Resolved
        /\ script_filename # NULL
        /\ Contains(script_filename, DotDotSlash)
        /\ pc # "ValidatePath")
       => (FailedWith(MSG_DOTDOT) /\ ~Dispatched)

\* a path under the configured prefix that contains "../" was rejected
C1_Witness ==
    /\ FailedWith(MSG_DOTDOT)
    /\ check_directory = P_PREFIX
    /\ script_filename = P_DOTDOT
    /\ StartsWith(script_filename, check_directory)

(***************************************************************************)
(* C2: when the first argument ends with '/', it is the containment        *)
(* prefix, the path is the value of SCRIPT_FILENAME, and execve is called  *)
(* only with a path that begins with the prefix byte for byte; any other   *)
(* path ends in return_error.  A path under the prefix without "../" is    *)
(* not rejected by the validation.                                         *)
(***************************************************************************)
C2_PrefixContainment ==
    ArgIsPrefix =>
       /\ Resolved => check_directory = argv[2]
       /\ (Resolved /\ script_filename # NULL)
             => (/\ SCRIPT_FILENAME \in DOMAIN environ
                 /\ script_filename = environ[SCRIPT_FILENAME])
       /\ (Dispatched \/ pc \in {"Dispatch", "Replaced"})
             => StartsWith(script_filename, argv[2])
       /\ Dispatched => execve_call[1].path = script_filename
       /\ (/\ Resolved
           /\ script_filename # NULL
           /\ ~StartsWith(script_filename, argv[2])
           /\ pc # "ValidatePath")
          => (/\ FailedWith(MSG_DOTDOT) \/ FailedWith(MSG_NOT_UNDER)
              /\ ~Dispatched)
       /\ (/\ pc = "Exited"
           /\ script_filename # NULL
           /\ StartsWith(script_filename, argv[2])
           /\ ~Contains(script_filename, DotDotSlash))
          => Dispatched

\* /var/www/other/app.cgi was rejected under the prefix /var/www/cgi/
C2_Witness ==
    /\ FailedWith(MSG_NOT_UNDER)
    /\ argv[2] = P_PREFIX
    /\ script_filename = P_OTHER
    /\ ~Dispatched

(***************************************************************************)
(* The header format, as a reference to compare the walk with.             *)
(***************************************************************************)
\* the L bytes before the closing byte of the block that was read
Payload == SubSeq(headers, 1, Len(headers) - 1)

\* the block was read and closes with a comma
BlockAccepted == headers # <<>> /\ headers[Len(headers)] = ","

HasNul(p) == \E i \in 1 .. Len(p) : p[i] = NUL
FirstNul(p) == CHOOSE i \in 1 .. Len(p) : p[i] = NUL /\ \A j \in 1 .. i - 1 : p[j] # NUL

RECURSIVE SplitNul(_)
\* the complete NUL-terminated strings of p, in order
SplitNul(p) ==
    IF ~HasNul(p) THEN <<>>
    ELSE LET k == FirstNul(p)
         IN << SubSeq(p, 1, k - 1) >> \o SplitNul(SubSeq(p, k + 1, Len(p)))

\* an even number of complete NUL-terminated strings and nothing else
WellFormed(p) ==
    /\ p = <<>> \/ p[Len(p)] = NUL
    /\ Cardinality({ i \in 1 .. Len(p) : p[i] = NUL }) % 2 = 0

\* the (name, value) pairs of a well-formed payload, in input order
RefPairs(p) ==
    LET strs == SplitNul(p)
    IN [i \in 1 .. (Len(strs) \div 2) |-> << strs[2 * i - 1], strs[2 * i] >>]

\* names an environment entry can carry
ValidName(n) == n # <<>> /\ \A i \in 1 .. Len(n) : n[i] # "="

NamesOf(pairs) == { pairs[i][1] : i \in 1 .. Len(pairs) }

\* the value of the last pair named n
LastValue(pairs, n) ==
    pairs[CHOOSE i \in 1 .. Len(pairs) :
            /\ pairs[i][1] = n
            /\ \A j \in i + 1 .. Len(pairs) : pairs[j][1] # n][2]

\* env overridden by those of the pairs whose name is in names, last wins
Overridden(env, pairs, names) ==
    [n \in DOMAIN env \cup names |->
        IF n \in names THEN LastValue(pairs, n) ELSE env[n]]

IsPrefixOf(s, t) ==
    /\ Len(s) <= Len(t)
    /\ \A i \in 1 .. Len(s) : s[i] = t[i]

C4_OnlyWellFormedAccepted ==
    (/\ BlockAccepted
     /\ ~WellFormed(Payload)
     /\ pc \in {"BuildEnv", "ResolvePath", "ValidatePath", "Dispatch",
                "Replaced", "Exited"})
    => (FailedWith(MSG_CORRUPT_TABLE) /\ ~Dispatched)

(***************************************************************************)
(* C5: once the digits read so far denote a value above 262144 the run has *)
(* ended in return_error with the range message, at the very digit that    *)
(* took the value past the maximum; nothing was read after that digit, no  *)
(* buffer was filled and the environment is the ambient one.               *)
(***************************************************************************)
DigitSeq == << "0", "1", "2", "3", "4", "5", "6", "7", "8", "9" >>

RECURSIVE DecimalValue(_)
\* the number a string of decimal digits denotes
DecimalValue(ds) ==
    IF ds = <<>> THEN 0
    ELSE DecimalValue(SubSeq(ds, 1, Len(ds) - 1)) * 10
         + ((CHOOSE k \in 1 .. 10 : DigitSeq[k] = ds[Len(ds)]) - 1)

C5_LengthAboveMaximum ==
    /\ DecimalValue(digits) > 262144 =>
          /\ FailedWith(MSG_RANGE)
          /\ out[1].status = ST_500
          /\ DecimalValue(SubSeq(digits, 1, Len(digits) - 1)) <= 262144
          /\ consumed = Len(digits)
          /\ headers = <<>>
          /\ applied = <<>>
          /\ environ = ambient
          /\ ~Dispatched
    /\ pc \in {"ReadLength", "ReadBlock"} => length = DecimalValue(digits)
    /\ headers # <<>> => Len(headers) <= 262144 + 1

\* the prefix 262145 was refused at its sixth digit
C5_Witness ==
    /\ digits = << "2", "6", "2", "1", "4", "5" >>
    /\ length = 262145
    /\ FailedWith(MSG_RANGE)
    /\ consumed = 6

(***************************************************************************)
(* C6: when the byte at offset L of the block is not ',', the run ends in  *)
(* return_error with the missing-comma message; the walk has not started,  *)
(* the environment is the ambient one and execve is never called.          *)
(***************************************************************************)
C6_MissingComma ==
    /\ headers # <<>> => Len(headers) = length + 1
    /\ (headers # <<>> /\ headers[length + 1] # ",") =>
          /\ FailedWith(MSG_MISSING_COMMA)
          /\ name = 0
          /\ applied = <<>>
          /\ ~overread
          /\ environ = ambient
          /\ ~Dispatched

\* a block with a complete pair and a closing byte that is not the comma
C6_Witness ==
    /\ FailedWith(MSG_MISSING_COMMA)
    /\ length > 0
    /\ headers[length + 1] = "x"
    /\ WellFormed(Payload)

(***************************************************************************)
(* C7: when a read finds the stream at its end, the run ends in            *)
(* return_error with status 500 Internal Error and a non-zero exit status: *)
(* "SCGI stream truncated" while the length prefix is read (the empty      *)
(* stream included), "SCGI Header truncated" after the ':'; no pair has    *)
(* been applied and execve is never called.                                *)
(***************************************************************************)
C7_Truncation ==
    streamEnded =>
       /\ FailedWith(IF consumed <= Len(digits)
                     THEN MSG_STREAM_TRUNCATED ELSE MSG_HEADER_TRUNCATED)
       /\ out[1].status = ST_500
       /\ exit_status # 0
       /\ consumed = 0 => out[1].message = MSG_STREAM_TRUNCATED
       /\ applied = <<>>
       /\ environ = ambient
       /\ ~Dispatched

\* the stream ended inside the header block, after part of it had arrived
C7_Witness ==
    /\ streamEnded
    /\ consumed > Len(digits) + 1
    /\ consumed < Len(digits) + 1 + length + 1
    /\ FailedWith(MSG_HEADER_TRUNCATED)

(***************************************************************************)
(* C8 (as stated): whenever execve is called, the environment passed is    *)
(* the ambient one overridden by the header's pairs (last wins), without   *)
(* SCGI and with GATEWAY_INTERFACE = CGI/1.1.  Stated here for the names   *)
(* an environment can carry; the header's strings are the runs of the L    *)
(* payload bytes between NULs.                                             *)
(***************************************************************************)
\* the bytes after the last NUL of p
AfterLastNul(p) ==
    IF ~HasNul(p) THEN p
    ELSE LET k == CHOOSE i \in 1 .. Len(p) :
                     p[i] = NUL /\ \A j \in i + 1 .. Len(p) : p[j] # NUL
         IN SubSeq(p, k + 1, Len(p))

\* the strings of the payload, a last one without NUL included
HeaderStrings(p) ==
    SplitNul(p) \o (IF AfterLastNul(p) = <<>> THEN <<>> ELSE << AfterLastNul(p) >>)

HeaderPairs(p) ==
    LET strs == HeaderStrings(p)
    IN [i \in 1 .. (Len(strs) \div 2) |-> << strs[2 * i - 1], strs[2 * i] >>]

C8_HandlerEnvironment ==
    Dispatched =>
       LET pairs == HeaderPairs(Payload)
           names == { n \in NamesOf(pairs) : ValidName(n) } \ {SCGI, GATEWAY_INTERFACE}
           envp == execve_call[1].envp
       IN /\ SCGI \notin DOMAIN envp
          /\ GATEWAY_INTERFACE \in DOMAIN envp
          /\ envp[GATEWAY_INTERFACE] = CGI_1_1
          /\ DOMAIN envp = ((DOMAIN ambient \cup names) \ {SCGI}) \cup {GATEWAY_INTERFACE}
          /\ \A n \in names : envp[n] = LastValue(pairs, n)
          /\ \A n \in DOMAIN ambient \ (names \cup {SCGI, GATEWAY_INTERFACE}) :
                envp[n] = ambient[n]

(***************************************************************************)
(* C9: the path and the argument vector follow the command line.  Without  *)
(* argument, or with a first argument ending in '/', the path is the value *)
(* of SCRIPT_FILENAME in the environment built for the handler and the     *)
(* argument vector is that path alone; with a first argument not ending in *)
(* '/', the path is that argument and the vector is the command line from  *)
(* that argument on.  execve is called with exactly these.                 *)
(***************************************************************************)
C9_PathAndArguments ==
    /\ (Resolved /\ script_filename # NULL) =>
          IF ArgIsScript
          THEN /\ script_filename = argv[2]
               /\ exec_args = SubSeq(argv, 2, Len(argv))
          ELSE /\ SCRIPT_FILENAME \in DOMAIN environ
               /\ script_filename = environ[SCRIPT_FILENAME]
               /\ exec_args = << script_filename >>
    /\ Dispatched =>
          /\ Resolved /\ script_filename # NULL
          /\ execve_call[1].path = script_filename
          /\ execve_call[1].args = exec_args
          /\ execve_call[1].envp = environ

\* execve was called with the script and the flag of the command line
\* although the environment names another script
C9_Witness ==
    /\ Dispatched
    /\ ArgIsScript
    /\ execve_call[1].path = P_DATE
    /\ execve_call[1].args = << P_DATE, A_FLAG >>
    /\ SCRIPT_FILENAME \in DOMAIN environ
    /\ environ[SCRIPT_FILENAME] # P_DATE

(***************************************************************************)
(* C10: without a script on the command line, a run whose environment has  *)
(* no SCRIPT_FILENAME once the header is applied ends in return_error with *)
(* the missing-SCRIPT_FILENAME message: the path is never validated and    *)
(* execve never called.  With a script on the command line that error      *)
(* never occurs.                                                           *)
(***************************************************************************)
C10_MissingScriptFilename ==
    /\ (Resolved /\ ~ArgIsScript /\ SCRIPT_FILENAME \notin DOMAIN environ) =>
          /\ FailedWith(MSG_NO_SCRIPT)
          /\ out[1].status = ST_500
          /\ script_filename = NULL
          /\ ~Dispatched
    /\ (~ArgIsScript /\ pc \in {"ValidatePath", "Dispatch", "Replaced"}) =>
          SCRIPT_FILENAME \in DOMAIN environ
    /\ (Len(out) > 0 /\ out[1].message = MSG_NO_SCRIPT) =>
          (~ArgIsScript /\ SCRIPT_FILENAME \notin DOMAIN environ)
    /\ ArgIsScript => (Len(out) > 0 => out[1].message # MSG_NO_SCRIPT)

\* under a containment prefix, a header that sets other variables only
C10_Witness ==
    /\ FailedWith(MSG_NO_SCRIPT)
    /\ ArgIsPrefix
    /\ applied # <<>>
    /\ SCRIPT_FILENAME \notin DOMAIN environ

(***************************************************************************)
(* C11.  The Error Reporter is terminal and used at most once.             *)
(***************************************************************************)
\* the status lines the program reports: a code and a reason
StatusLines ==
    {"500 Internal Error", "500 Invalid SCGI header", "404 Not Found"}

\* C11: at most one response is ever written; a response has been written
\* exactly when the process has exited through the Error Reporter, it has the
\* form "Status: <code> <reason>\r\nContent-Type: text/plain\r\n\r\n<message>\r\n",
\* the exit status is then non-zero and no step of the program is possible any
\* more; a process that is still running has no exit status, and a run whose
\* process image was replaced has written nothing.
C11_ErrorReporterTerminal ==
    /\ Len(out) <= 1
    /\ (pc = "Exited") <=> (Len(out) = 1)
    /\ pc = "Exited" =>
         /\ out[1].format = "Status: %s\r\nContent-Type: text/plain\r\n\r\n%s\r\n"
         /\ out[1].status \in StatusLines
         /\ out[1].content_type = "text/plain"
         /\ out[1].message # ""
         /\ exit_status # 0
         /\ exit_status # -1
         /\ ~ENABLED Next
    /\ pc # "Exited" => exit_status = -1
    /\ pc = "Replaced" => out = <<>> /\ ~ENABLED Next

\* a failure in the middle of the pipeline: pairs were applied, the path was
\* resolved, and the directory check sent the run to the Error Reporter
C11_Witness ==
    /\ pc = "Exited"
    /\ applied # <<>>
    /\ Resolved
    /\ ~Dispatched
    /\ Len(out) = 1
    /\ out[1].message = "[%s] doesn't reside under [%s]"
    /\ exit_status = 1

(***************************************************************************)
(* C12.  What is reported when execve fails.                               *)
(***************************************************************************)
\* the text the system gives for a cause of failure
ReasonText(e) ==
    CASE e = "ENOENT" -> "No such file or directory"
      [] e = "EACCES" -> "Permission denied"

\* C12: when execve was called and the run ended in the Error Reporter, a
\* missing path (ENOENT) is reported as 404 Not Found, any other cause as
\* 500 Internal Error with the system's text for the cause as the argument of
\* the message; 404 is reported for nothing else; and these failures, like
\* every other failure, exit with status 1.
C12_ExecFailure ==
    /\ (Dispatched /\ pc = "Exited") =>
         /\ errno # "0"
         /\ errno = "ENOENT" =>
              /\ out[1].status = "404 Not Found"
              /\ out[1].message = "Can't locate CGI script\n"
         /\ errno # "ENOENT" =>
              /\ out[1].status = "500 Internal Error"
              /\ out[1].message =
                   "Unable to execute CGI script, please contact the system administrator\n%s\n"
              /\ out[1].args = << ReasonText(errno) >>
    /\ (pc = "Exited" /\ out[1].status = "404 Not Found") =>
         Dispatched /\ errno = "ENOENT"
    /\ pc = "Exited" => exit_status = 1

\* execve was called and failed for a cause other than a missing path
C12_Witness ==
    /\ Dispatched
    /\ pc = "Exited"
    /\ errno = "EACCES"
    /\ out[1].status = "500 Internal Error"
    /\ out[1].args = << "Permission denied" >>
    /\ exit_status = 1

(***************************************************************************)
(* C13.  Every run ends in one of the two outcomes; stages run in order.   *)
(***************************************************************************)
\* the position of a stage in the pipeline
StageRank(p) ==
    CASE p = "Start" -> 0
      [] p = "ReadLength" -> 1
      [] p = "ReadBlock" -> 2
      [] p = "ParseEnv" -> 3
      [] p = "BuildEnv" -> 4
      [] p = "ResolvePath" -> 5
      [] p = "ValidatePath" -> 6
      [] p = "Dispatch" -> 7
      [] OTHER -> 8

\* C13: a run that can take no further step has reached one of the two
\* outcomes, the replaced process image or the exit of the Error Reporter
\* (the form of "every run eventually reaches exactly one of the two outcomes"
\* that a finite run refutes).
C13_ReachesOneOutcome ==
    (~ENABLED Next) => pc \in {"Replaced", "Exited"}

\* C13, the order of the stages: no step leads back to an earlier stage, and
\* the two outcomes exclude each other
C13_StagesInOrder ==
    [][/\ StageRank(pc') >= StageRank(pc)
       /\ pc \in {"Replaced", "Exited"} => pc' = pc]_vars

(***************************************************************************)
(* C14.  The walk run twice over the same buffer.                          *)
(***************************************************************************)
\* a second walk over the buffer has ended
WalkedTwice == walk1 # <<>> /\ pc \in {"BuildEnv", "Exited"}

\* C14: the walk run a second time over the same buffer ends as the first
\* one did: with the same error, or with the same pairs in the same order;
\* and applying the pairs the second time leaves the environment as the first
\* application left it.
C14_WalkDeterministicIdempotent ==
    WalkedTwice =>
      /\ (pc = "Exited") = walk1[1].failed
      /\ applied = walk1[1].pairs
      /\ environ = walk1[1].env

\* C14 for the walks that stay inside the buffer
C14_InsideBuffer ==
    (WalkedTwice /\ ~overread /\ ~walk1[1].over) =>
      /\ (pc = "Exited") = walk1[1].failed
      /\ applied = walk1[1].pairs
      /\ environ = walk1[1].env

(***************************************************************************)
(* C15.  The scans of the walk stay inside the buffer.                     *)
(***************************************************************************)
\* C15: for a block that passed the length, read and comma checks, no scan of
\* the walk examines a byte behind offset L of the buffer.
C15_ScansInsideBuffer ==
    BlockAccepted => ~overread

(***************************************************************************)
(* C16.  Exactly the header is consumed, one read per prefix byte and one  *)
(* read for the block.                                                     *)
(***************************************************************************)
\* the bytes of a whole header: the digits, ':', the payload and ','
HeaderSize == Len(digits) + 1 + length + 1

\* C16: while the prefix is read, every read call has taken exactly one byte;
\* once the block is in the buffer, and so whenever execve is called, the
\* bytes consumed are exactly those of the header and the block came with one
\* read call; a block read that returned fewer than L+1 bytes is never
\* accepted, even when the stream had not ended.
C16_ExactConsumption ==
    /\ pc = "Start" => reads = 0 /\ consumed = 0
    /\ pc = "ReadLength" => reads = Len(digits) /\ consumed = Len(digits)
    /\ pc = "ReadBlock" => reads = Len(digits) + 1 /\ consumed = Len(digits) + 1
    /\ headers # <<>> =>
         /\ Len(headers) = length + 1
         /\ consumed = HeaderSize
         /\ reads = Len(digits) + 2
    /\ Dispatched => headers # <<>> /\ consumed = HeaderSize
    /\ FailedWith("SCGI Header truncated") =>
         /\ headers = <<>>
         /\ consumed < HeaderSize
         /\ reads = Len(digits) + 2

\* a header with a payload was consumed whole and the script was run
C16_Witness ==
    /\ pc = "Replaced"
    /\ Dispatched
    /\ length > 0
    /\ Len(digits) = 2
    /\ consumed = Len(digits) + length + 2
    /\ reads = Len(digits) + 2

\* a block read that came back short of L+1 bytes although the stream had not
\* ended
C16_ShortReadRefused ==
    /\ FailedWith("SCGI Header truncated")
    /\ ~streamEnded
    /\ consumed > Len(digits) + 1

(***************************************************************************)
(* C17.  The environment when header parsing fails.                        *)
(***************************************************************************)
\* the messages of the failures of header parsing that come before the walk
BeforeWalkMessages ==
    {"SCGI stream truncated",
     "SCGI stream didn't start with a digit, started with char 0x%x",
     "SCGI Header length is not in the range 0..%d",
     "Invalid character 0x%x in length",
     "Can't allocate memory to read SCGI header",
     "SCGI Header truncated",
     "SCGI Header: Incomplete netstring, missing comma"}

\* header parsing ended in the Error Reporter
ParsingFailed ==
    /\ pc = "Exited"
    /\ Len(out) = 1
    /\ out[1].message \in
         BeforeWalkMessages \cup {"SCGI Header: Corrupt name/value table"}

\* C17 (amended): when header parsing fails on the length, on a truncation or
\* on the missing comma, no pair has been applied and the environment is the
\* ambient one; when it fails on a corrupt name/value table, the complete
\* pairs that precede the corrupt position have been applied, in order, and
\* the environment is the ambient one overridden by them; in both cases the
\* process has exited without resolving a path or calling execve.
C17_AppliedBeforeCorruptOnly ==
    ParsingFailed =>
      /\ ~Resolved
      /\ ~Dispatched
      /\ out[1].message \in BeforeWalkMessages =>
           /\ applied = <<>>
           /\ environ = ambient
      /\ out[1].message = "SCGI Header: Corrupt name/value table" =>
           LET pairs == RefPairs(Payload) IN
           /\ BlockAccepted
           /\ applied = pairs
           /\ environ = Overridden(ambient, pairs,
                          { n \in NamesOf(pairs) : ValidName(n) })

\* the walk applied a pair that changed the environment and then failed on
\* a corrupt table
C17_Witness ==
    /\ ParsingFailed
    /\ out[1].message = "SCGI Header: Corrupt name/value table"
    /\ Len(applied) = 1
    /\ environ # ambient
    /\ exit_status = 1

\* C17 as first stated: whenever header parsing ends in the Error Reporter,
\* no pair has been applied and the environment is the ambient one.
C17_Original ==
    ParsingFailed => applied = <<>> /\ environ = ambient

(***************************************************************************)
(* C18.  With a script on the command line, what is run does not depend on *)
(* the header.                                                             *)
(***************************************************************************)
\* C18: with a first argument that does not end in '/', everything about the
\* program that is run is a function of the command line alone, whatever
\* header was parsed: the path is the first argument, the argument vector is
\* the command line from that argument on, no containment prefix is in
\* force; a path with "../" fails the "../" check for every header, and any
\* other path goes to execve, for every header with that path and that
\* vector.
C18_OverrideIndependentOfHeader ==
    (ArgIsScript /\ Resolved) =>
      /\ script_filename = argv[2]
      /\ exec_args = Tail(argv)
      /\ check_directory = <<"NULLPTR">>
      /\ pc \in {"ValidatePath", "Dispatch", "Replaced", "Exited"}
      /\ pc # "ValidatePath" =>
           IF Contains(argv[2], <<".", ".", "/">>)
           THEN /\ FailedWith("SCRIPT_FILENAME should not include \"../\"")
                /\ ~Dispatched
           ELSE /\ pc # "Dispatch" => Dispatched
                /\ Dispatched =>
                     /\ execve_call[1].path = argv[2]
                     /\ execve_call[1].args = Tail(argv)

\* the header named a script with "../" in its path, which alone would have
\* failed the check, and the script of the command line was run
C18_Witness ==
    /\ ArgIsScript
    /\ pc = "Replaced"
    /\ Len(applied) = 1
    /\ applied[1][1] = SCRIPT_FILENAME
    /\ Contains(applied[1][2], <<".", ".", "/">>)
    /\ SCRIPT_FILENAME \in DOMAIN environ
    /\ environ[SCRIPT_FILENAME] = applied[1][2]
    /\ execve_call[1].path = argv[2]
    /\ ~Contains(argv[2], <<".", ".", "/">>)

(***************************************************************************)
(* C19.  The length accumulator while the digits are read.                 *)
(***************************************************************************)
RECURSIVE StripZeros(_)
\* a digit string without its leading zeros
StripZeros(ds) ==
    IF ds # <<>> /\ Head(ds) = "0" THEN StripZeros(Tail(ds)) ELSE ds

\* C19: the accumulator always holds the number the digits read so far
\* denote, leading zeros not counting: it never wraps.  It never exceeds
\* 2621449, which is below 2^31; it is above 262144 exactly when the run was
\* ended by the range error, so after every accepted digit it lies in
\* 0 .. 262144, the value 262144 is accepted and 262145 is not.
C19_LengthBounded ==
    /\ length = DecimalValue(digits)
    /\ length = DecimalValue(StripZeros(digits))
    /\ 0 <= length /\ length <= 2621449
    /\ 2621449 < 2147483647
    /\ (length > 262144) <=>
          FailedWith("SCGI Header length is not in the range 0..%d")
    /\ pc \in {"ReadLength", "ReadBlock"} => length \in 0 .. 262144
    /\ length = 262145 => pc = "Exited"

\* the prefix 0262144 was accepted: the maximum, written with a leading zero
C19_Witness ==
    /\ digits = << "0", "2", "6", "2", "1", "4", "4" >>
    /\ length = 262144
    /\ pc = "ReadBlock"
    /\ out = <<>>

\* the seventh digit of 2621440 took the accumulator to its largest value
\* before the range check ended the run
C19_LargestIntermediate ==
    /\ digits = << "2", "6", "2", "1", "4", "4", "9" >>
    /\ length = 2621449
    /\ pc = "Exited"

====
